---- MODULE Spec2Model ----
(***************************************************************************)
(* Reply router of reactive-commons-go (src/reply_router.go).              *)
(*                                                                         *)
(* Execution contexts:                                                     *)
(*   - one caller per registration r (addReplyToListen, then the blocking  *)
(*     receive of Publisher.RequestReply),                                 *)
(*   - one timer per registration (time.AfterFunc -> cleanReply),          *)
(*   - the consumer goroutine started by listen.                           *)
(* Every statement that touches shared state (repliesMap, a timer, a       *)
(* channel) is one step.  A map access is two steps (it begins, it ends),  *)
(* so that two contexts can be inside the map at the same time: the code   *)
(* takes no lock.  The Go runtime may then abort the process ("fatal       *)
(* error: concurrent map read and map write"), which is action MapFatal.   *)
(***************************************************************************)
EXTENDS Naturals, Sequences, FiniteSets

\* Number of registrations (calls of addReplyToListen) in a run.
MaxRegs == 2
Regs == 1..MaxRegs
\* Number of Publisher.Start calls in a run.
MaxStarts == 3
\* Number of messages (commands and events) the Publisher sends in a run.
MaxSends == 2
\* msg.Body: opaque bytes; NoBody is a nil data field.
Bodies == {"b1", "b2"}
NoBody == ""
\* Correlation ids are 1..MaxRegs; 0 is the empty string "".
EmptyId == 0
CorrIds == 1..MaxRegs
\* A header that is not present in msg.Headers.
NoHeader == MaxRegs + 1
QueryTypes == {"qa", "qb"}
NoEntry == 0

VARIABLES
    repliesMap,  \* r.repliesMap: correlation id -> registration stored (NoEntry: absent)
    corrOf,      \* correlationId argument of registration r (EmptyId: not yet called)
    queryOf,     \* query argument of registration r
    callerPc,    \* position of the caller of registration r
    timerPc,     \* timer of registration r and position of its cleanReply callback
    cleanEntry,  \* replyStr local of cleanReply of registration r
    closed,      \* whether the channel made by registration r is closed
    received,    \* values the caller of registration r received on its channel
    attempts,    \* who reached a send statement on the channel of registration r
    consPc,      \* position of the consumer goroutine
    msg,         \* the delivery the consumer is handling
    consEntry,   \* replyStr local of the consumer goroutine
    fatal,       \* "none", or why the process aborted
    acks,        \* acknowledgements the broker got for the delivery taken last
    idPolicy,    \* "fresh": every registration has its own correlation id; "any": ids may repeat
    pubState,    \* Publisher: "new", "starting", "started", "stopped", "failed"
    connGen,     \* connections the Publisher opened so far; the current one is connGen
    connOpen,    \* whether connection connGen is open
    startErr,    \* result of the last Publisher.Start: "none" (no call yet), "nil", "error"
    stopErr,     \* result of the last Publisher.Stop
    listenPc,    \* position inside replyRouter.listen
    listenErr,   \* value listen returns
    routerCh,    \* r.ch: the connection its channel was opened on (0: nil)
    broker,      \* reply queue at the broker: owner connection, name, binding key, prefetch, consumer tag
    consumerOf,  \* connections whose consumer goroutine of the router is running
    lstState,    \* Listener of each application: "new", "listening", "stopped"
    lstErr,      \* results of the last Listen and the last Stop of each Listener
    declared,    \* applications whose queues exist at the broker
    cmdQueue,    \* command queue of each application
    evtQueue,    \* event queue of each application
    invoked,     \* messages the handlers of each application were invoked with
    sentLog,     \* messages published, each with the applications whose queue took a copy
    nextId       \* messages published so far (the next message is number nextId)

pubVars == <<pubState, connGen, connOpen, startErr, stopErr, listenPc, listenErr,
             routerCh, broker, consumerOf>>

msgVars == <<lstState, lstErr, declared, cmdQueue, evtQueue, invoked, sentLog, nextId>>

\* What no step of the router changes.
otherVars == <<idPolicy, pubVars, msgVars>>

\* What no step of the Publisher, a Listener or the broker changes.
routerVars == <<repliesMap, corrOf, queryOf, callerPc, timerPc, cleanEntry, closed,
                received, attempts, consPc, msg, consEntry, fatal, acks, idPolicy>>

vars == <<repliesMap, corrOf, queryOf, callerPc, timerPc, cleanEntry, closed,
          received, attempts, consPc, msg, consEntry, fatal, acks, otherVars>>

\* amqp.Delivery as far as the router reads it: CorrelationId, Headers[correlationIDHeader], Body.
\* A reply publisher sets either the dedicated field or only the header.
Messages ==
    [cid : CorrIds, hdr : {NoHeader}, body : Bodies]
        \cup [cid : {EmptyId}, hdr : CorrIds \cup {EmptyId, NoHeader}, body : Bodies]

NoMsg == [cid |-> EmptyId, hdr |-> NoHeader, body |-> NoBody]

\* A reply built without the delivery's body.
DataReplyNoBody(r, m) == [query |-> queryOf[r], data |-> NoBody, err |-> "nil", errMsg |-> ""]

\* reply{query, data, err: nil} built by the consumer goroutine.
DataReply(r, m) == [query |-> queryOf[r], data |-> m.body, err |-> "nil", errMsg |-> ""]

\* reply{err: &TimeoutReplyError{msg: "timeout while waiting for reply " + query}}.
TimeoutReply(r) == [query |-> "", data |-> NoBody, err |-> "TimeoutReplyError", errMsg |-> queryOf[r]]

TimerFired(r) == timerPc[r] \in {"lookup", "reading", "send", "close", "delete", "deleting", "ret"}

RouterInit ==
    /\ repliesMap = [c \in CorrIds \cup {EmptyId} |-> NoEntry]
    /\ corrOf = [r \in Regs |-> EmptyId]
    /\ queryOf = [r \in Regs |-> ""]
    /\ callerPc = [r \in Regs |-> "idle"]
    /\ timerPc = [r \in Regs |-> "none"]
    /\ cleanEntry = [r \in Regs |-> NoEntry]
    /\ closed = [r \in Regs |-> FALSE]
    /\ received = [r \in Regs |-> << >>]
    /\ attempts = [r \in Regs |-> {}]
    /\ consPc = "recv"
    /\ msg = NoMsg
    /\ consEntry = NoEntry
    /\ fatal = "none"
    /\ acks = 0

\* r.id: application name and a uuid, fixed when the router is constructed.
RouterId == "testingPublisherApp.uuid"
NoName == ""
NoConn == 0
\* Prefetch count of the reply consumer.
Prefetch == 15
NoQueue == [owner |-> NoConn, name |-> NoName, key |-> NoName, prefetch |-> 0, consumer |-> NoName]

\* The applications of the end-to-end tests.
PubApp == "testingPublisherApp"
Apps == {"testingListenerApp", "otherListener"}
NoTarget == ""
CmdTypes == {"testingListenerApp.cmd", "testingListenerApp.other"}
EventTypes == {"orderPlaced", "orderOther"}
\* Handlers each Listener registers before Listen.
CmdHandlers(a) == {"testingListenerApp.cmd"}
EventHandlers(a) == {"orderPlaced"}
Data == {"data"}

\* A Publisher constructed and not started: no connection, nothing declared.
PublisherInit ==
    /\ pubState = "new"
    /\ connGen = 0
    /\ connOpen = FALSE
    /\ startErr = "none"
    /\ stopErr = "none"
    /\ listenPc = "idle"
    /\ listenErr = "nil"
    /\ routerCh = NoConn
    /\ broker = NoQueue
    /\ consumerOf = {}

\* Listeners constructed with their handlers, not listening; nothing published.
MessagingInit ==
    /\ lstState = [a \in Apps |-> "new"]
    /\ lstErr = [a \in Apps |-> [listen |-> "none", stop |-> "none"]]
    /\ declared = {}
    /\ cmdQueue = [a \in Apps |-> << >>]
    /\ evtQueue = [a \in Apps |-> << >>]
    /\ invoked = [a \in Apps |-> << >>]
    /\ sentLog = {}
    /\ nextId = 1

Init ==
    /\ RouterInit
    /\ idPolicy = "fresh"
    /\ PublisherInit
    /\ MessagingInit

(***************************************************************************)
(* The pending-reply table is a plain Go map, accessed without a lock.     *)
(***************************************************************************)
\* Contexts: 0 is the consumer goroutine, r the caller of registration r,
\* MaxRegs + r the cleanReply callback of registration r.
Readers == (IF consPc = "reading" THEN {0} ELSE {})
               \cup {MaxRegs + r : r \in {x \in Regs : timerPc[x] = "reading"}}
Writers == (IF consPc = "deleting" THEN {0} ELSE {})
               \cup {x \in Regs : callerPc[x] = "inserting"}
               \cup {MaxRegs + r : r \in {x \in Regs : timerPc[x] = "deleting"}}

\* Two contexts are inside a map access at once, one of them writing.
MapRace == \/ Cardinality(Writers) >= 2
           \/ Writers # {} /\ Readers # {}

\* correlationId := uuid.NewString() in Publisher.RequestReply: a fresh id per call.
NewCorrelationId(r) == r

\* The correlationId argument addReplyToListen may be called with.
IdChoices(r) == IF idPolicy = "fresh" THEN {NewCorrelationId(r)} ELSE CorrIds

(***************************************************************************)
(* addReplyToListen (src/reply_router.go:143-157) and the caller's wait.   *)
(***************************************************************************)
\* ch := make(chan *reply); timer := time.AfterFunc(r.timeout, ...)
StartTimer(r, q) ==
    /\ fatal = "none"
    /\ callerPc[r] = "idle"
    /\ \A x \in Regs : x < r => callerPc[x] # "idle"
    /\ \E c \in IdChoices(r) : corrOf' = [corrOf EXCEPT ![r] = c]
    /\ queryOf' = [queryOf EXCEPT ![r] = q]
    /\ timerPc' = [timerPc EXCEPT ![r] = "armed"]
    /\ callerPc' = [callerPc EXCEPT ![r] = "insert"]
    /\ UNCHANGED <<repliesMap, cleanEntry, closed, received, attempts, consPc, msg,
                   consEntry, fatal>>
    /\ UNCHANGED <<acks, otherVars>>

\* r.repliesMap[correlationId] = replyStr{...}: the write begins.
InsertBegin(r) ==
    /\ fatal = "none"
    /\ callerPc[r] = "insert"
    /\ callerPc' = [callerPc EXCEPT ![r] = "inserting"]
    /\ UNCHANGED <<repliesMap, corrOf, queryOf, timerPc, cleanEntry, closed, received,
                   attempts, consPc, msg, consEntry, fatal>>
    /\ UNCHANGED <<acks, otherVars>>

\* The write ends; return ch; the caller blocks receiving from ch.
InsertEnd(r) ==
    /\ fatal = "none"
    /\ callerPc[r] = "inserting"
    /\ repliesMap' = [repliesMap EXCEPT ![corrOf[r]] = r]
    /\ callerPc' = [callerPc EXCEPT ![r] = "waiting"]
    /\ UNCHANGED <<corrOf, queryOf, timerPc, cleanEntry, closed, received, attempts,
                   consPc, msg, consEntry, fatal>>
    /\ UNCHANGED <<acks, otherVars>>

\* The caller's context is canceled: it stops receiving from its channel.
Abandon(r) ==
    /\ fatal = "none"
    /\ callerPc[r] = "waiting"
    /\ callerPc' = [callerPc EXCEPT ![r] = "abandoned"]
    /\ UNCHANGED <<repliesMap, corrOf, queryOf, timerPc, cleanEntry, closed, received,
                   attempts, consPc, msg, consEntry, fatal>>
    /\ UNCHANGED <<acks, otherVars>>

(***************************************************************************)
(* Channel operations on the unbuffered channel of registration e.         *)
(***************************************************************************)
\* ch <- v: a rendezvous with the receiving caller; panics on a closed channel.
CanSend(e) == closed[e] \/ callerPc[e] = "waiting"

Send(e, v) ==
    IF closed[e]
    THEN /\ fatal' = "send on closed channel"
         /\ UNCHANGED <<received, callerPc>>
    ELSE /\ received' = [received EXCEPT ![e] = Append(@, v)]
         /\ callerPc' = [callerPc EXCEPT ![e] = "done"]
         /\ UNCHANGED fatal

\* close(ch): panics on a closed channel.
Close(e) ==
    IF closed[e]
    THEN /\ fatal' = "close of closed channel"
         /\ UNCHANGED closed
    ELSE /\ closed' = [closed EXCEPT ![e] = TRUE]
         /\ UNCHANGED fatal

(***************************************************************************)
(* The deadline timer and cleanReply (src/reply_router.go:146-148,159-174).*)
(***************************************************************************)
\* The timer expires: cleanReply(correlationId) starts in its own goroutine.
TimerFire(r) ==
    /\ fatal = "none"
    /\ timerPc[r] = "armed"
    /\ timerPc' = [timerPc EXCEPT ![r] = "lookup"]
    /\ UNCHANGED <<repliesMap, corrOf, queryOf, callerPc, cleanEntry, closed, received,
                   attempts, consPc, msg, consEntry, fatal>>
    /\ UNCHANGED <<acks, otherVars>>

\* replyStr, ok := r.repliesMap[correlationId]: the read begins.
CleanLookupBegin(r) ==
    /\ fatal = "none"
    /\ timerPc[r] = "lookup"
    /\ timerPc' = [timerPc EXCEPT ![r] = "reading"]
    /\ UNCHANGED <<repliesMap, corrOf, queryOf, callerPc, cleanEntry, closed, received,
                   attempts, consPc, msg, consEntry, fatal>>
    /\ UNCHANGED <<acks, otherVars>>

\* The read ends; if !ok { return }.
CleanLookupEnd(r) ==
    /\ fatal = "none"
    /\ timerPc[r] = "reading"
    /\ LET e == repliesMap[corrOf[r]] IN
         IF e = NoEntry
         THEN /\ timerPc' = [timerPc EXCEPT ![r] = "ret"]
              /\ UNCHANGED <<cleanEntry, attempts>>
         ELSE /\ timerPc' = [timerPc EXCEPT ![r] = "send"]
              /\ cleanEntry' = [cleanEntry EXCEPT ![r] = e]
              /\ attempts' = [attempts EXCEPT ![e] = @ \cup {MaxRegs + r}]
    /\ UNCHANGED <<repliesMap, corrOf, queryOf, callerPc, closed, received, consPc, msg,
                   consEntry, fatal>>
    /\ UNCHANGED <<acks, otherVars>>

\* replyStr.ch <- &reply{err: &TimeoutReplyError{...}}
CleanSend(r) ==
    /\ fatal = "none"
    /\ timerPc[r] = "send"
    /\ CanSend(cleanEntry[r])
    /\ Send(cleanEntry[r], TimeoutReply(cleanEntry[r]))
    /\ timerPc' = [timerPc EXCEPT ![r] = "close"]
    /\ UNCHANGED <<repliesMap, corrOf, queryOf, cleanEntry, closed, attempts, consPc,
                   msg, consEntry>>
    /\ UNCHANGED <<acks, otherVars>>

\* close(replyStr.ch)
CleanClose(r) ==
    /\ fatal = "none"
    /\ timerPc[r] = "close"
    /\ Close(cleanEntry[r])
    /\ timerPc' = [timerPc EXCEPT ![r] = "delete"]
    /\ UNCHANGED <<repliesMap, corrOf, queryOf, callerPc, cleanEntry, received, attempts,
                   consPc, msg, consEntry>>
    /\ UNCHANGED <<acks, otherVars>>

\* delete(r.repliesMap, correlationId): the write begins.
CleanDeleteBegin(r) ==
    /\ fatal = "none"
    /\ timerPc[r] = "delete"
    /\ timerPc' = [timerPc EXCEPT ![r] = "deleting"]
    /\ UNCHANGED <<repliesMap, corrOf, queryOf, callerPc, cleanEntry, closed, received,
                   attempts, consPc, msg, consEntry, fatal>>
    /\ UNCHANGED <<acks, otherVars>>

\* CleanDeleteEnd that empties the table (r.repliesMap = make(repliesMap))
\* instead of deleting one key.
CleanDeleteEndClearsAll(r) ==
    /\ fatal = "none"
    /\ timerPc[r] = "deleting"
    /\ repliesMap' = [c \in DOMAIN repliesMap |-> NoEntry]
    /\ timerPc' = [timerPc EXCEPT ![r] = "ret"]
    /\ UNCHANGED <<corrOf, queryOf, callerPc, cleanEntry, closed, received, attempts,
                   consPc, msg, consEntry, fatal>>
    /\ UNCHANGED <<acks, otherVars>>

\* The write ends; cleanReply returns.
CleanDeleteEnd(r) ==
    /\ fatal = "none"
    /\ timerPc[r] = "deleting"
    /\ repliesMap' = [repliesMap EXCEPT ![corrOf[r]] = NoEntry]
    /\ timerPc' = [timerPc EXCEPT ![r] = "ret"]
    /\ UNCHANGED <<corrOf, queryOf, callerPc, cleanEntry, closed, received, attempts,
                   consPc, msg, consEntry, fatal>>
    /\ UNCHANGED <<acks, otherVars>>

(***************************************************************************)
(* The consumer goroutine of listen (src/reply_router.go:104-138).         *)
(***************************************************************************)
\* Lines 109-116: whether the delivery is dropped for want of a correlation id.
\* The header is read only when the CorrelationId field is empty.
NoCorrelation(m) == m.cid = EmptyId /\ (m.hdr = NoHeader \/ m.hdr = EmptyId)

\* The key of the lookup of line 118: the corrId of line 109.  The corrId
\* assigned from the header on line 111 is a new variable of the inner block
\* (":="), so the key is the CorrelationId field also when that is empty.
LookupKey(m) == m.cid

\* r.ch.Consume(..., true /* auto-ack */, ...), line 93: the broker counts a
\* delivery as acknowledged when it hands it to the consumer.
AutoAck == TRUE

\* The positions at a call of m.Ack(false): lines 113, 121, 135.
ExplicitAckPcs == {"ackNoCorr", "ackFired", "ackDone"}

\* Take without the "continue" of line 114: a delivery without a correlation id
\* goes on to the lookup.
TakeNoContinue(m) ==
    /\ fatal = "none"
    /\ consPc = "recv"
    /\ msg' = m
    /\ consPc' = "lookup"
    /\ UNCHANGED <<repliesMap, corrOf, queryOf, callerPc, timerPc, cleanEntry, closed,
                   received, attempts, consEntry, fatal>>
    /\ acks' = IF AutoAck THEN 1 ELSE 0
    /\ UNCHANGED otherVars

\* msg := <-msgs and lines 107-116.
Take(m) ==
    /\ fatal = "none"
    /\ consPc = "recv"
    /\ msg' = m
    /\ consPc' = IF NoCorrelation(m) THEN "ackNoCorr" ELSE "lookup"
    /\ UNCHANGED <<repliesMap, corrOf, queryOf, callerPc, timerPc, cleanEntry, closed,
                   received, attempts, consEntry, fatal>>
    /\ acks' = IF AutoAck THEN 1 ELSE 0
    /\ UNCHANGED otherVars

\* replyStr, ok := r.repliesMap[corrId]: the read begins.
ConsLookupBegin ==
    /\ fatal = "none"
    /\ consPc = "lookup"
    /\ consPc' = "reading"
    /\ UNCHANGED <<repliesMap, corrOf, queryOf, callerPc, timerPc, cleanEntry, closed,
                   received, attempts, msg, consEntry, fatal>>
    /\ UNCHANGED <<acks, otherVars>>

\* The read ends; without an entry the loop body is over (no Ack on this path).
ConsLookupEnd ==
    /\ fatal = "none"
    /\ consPc = "reading"
    /\ LET e == repliesMap[LookupKey(msg)] IN
         IF e = NoEntry
         THEN /\ consPc' = "miss"
              /\ UNCHANGED consEntry
         ELSE /\ consPc' = "stop"
              /\ consEntry' = e
    /\ UNCHANGED <<repliesMap, corrOf, queryOf, callerPc, timerPc, cleanEntry, closed,
                   received, attempts, msg, fatal>>
    /\ UNCHANGED <<acks, otherVars>>

\* ConsStop with the result of timer.Stop() ignored: the reply is sent also
\* when the timer has already expired.
ConsStopIgnoresResult ==
    /\ fatal = "none"
    /\ consPc = "stop"
    /\ timerPc' = IF timerPc[consEntry] = "armed"
                  THEN [timerPc EXCEPT ![consEntry] = "stopped"] ELSE timerPc
    /\ attempts' = [attempts EXCEPT ![consEntry] = @ \cup {0}]
    /\ consPc' = "send"
    /\ UNCHANGED <<repliesMap, corrOf, queryOf, callerPc, cleanEntry, closed, received,
                   msg, consEntry, fatal>>
    /\ UNCHANGED <<acks, otherVars>>

\* if !replyStr.timer.Stop() { m.Ack(false); continue }
\* Stop reports false when the timer has expired (its function was started)
\* or was stopped before.
ConsStop ==
    /\ fatal = "none"
    /\ consPc = "stop"
    /\ IF timerPc[consEntry] = "armed"
       THEN /\ timerPc' = [timerPc EXCEPT ![consEntry] = "stopped"]
            /\ attempts' = [attempts EXCEPT ![consEntry] = @ \cup {0}]
            /\ consPc' = "send"
            /\ UNCHANGED consEntry
       ELSE /\ consPc' = "ackFired"
            /\ consEntry' = NoEntry
            /\ UNCHANGED <<timerPc, attempts>>
    /\ UNCHANGED <<repliesMap, corrOf, queryOf, callerPc, cleanEntry, closed, received,
                   msg, fatal>>
    /\ UNCHANGED <<acks, otherVars>>

\* replyStr.ch <- &reply{query: replyStr.query, data: m.Body, err: nil}
ConsSend ==
    /\ fatal = "none"
    /\ consPc = "send"
    /\ CanSend(consEntry)
    /\ Send(consEntry, DataReply(consEntry, msg))
    /\ consPc' = "close"
    /\ UNCHANGED <<repliesMap, corrOf, queryOf, timerPc, cleanEntry, closed, attempts,
                   msg, consEntry>>
    /\ UNCHANGED <<acks, otherVars>>

\* close(replyStr.ch)
ConsClose ==
    /\ fatal = "none"
    /\ consPc = "close"
    /\ Close(consEntry)
    /\ consPc' = "delete"
    /\ UNCHANGED <<repliesMap, corrOf, queryOf, callerPc, timerPc, cleanEntry, received,
                   attempts, msg, consEntry>>
    /\ UNCHANGED <<acks, otherVars>>

\* delete(r.repliesMap, corrId): the write begins.
ConsDeleteBegin ==
    /\ fatal = "none"
    /\ consPc = "delete"
    /\ consPc' = "deleting"
    /\ UNCHANGED <<repliesMap, corrOf, queryOf, callerPc, timerPc, cleanEntry, closed,
                   received, attempts, msg, consEntry, fatal>>
    /\ UNCHANGED <<acks, otherVars>>

\* The write ends.
ConsDeleteEnd ==
    /\ fatal = "none"
    /\ consPc = "deleting"
    /\ repliesMap' = [repliesMap EXCEPT ![LookupKey(msg)] = NoEntry]
    /\ consPc' = "ackDone"
    /\ consEntry' = NoEntry
    /\ UNCHANGED <<corrOf, queryOf, callerPc, timerPc, cleanEntry, closed, received,
                   attempts, msg, fatal>>
    /\ UNCHANGED <<acks, otherVars>>

\* m.Ack(false) of lines 113, 121 and 135, or the end of the loop body after a
\* lookup that found nothing; then the next iteration.
ConsNext ==
    /\ fatal = "none"
    /\ consPc \in {"ackNoCorr", "ackFired", "ackDone", "miss"}
    /\ consPc' = "recv"
    /\ msg' = NoMsg
    /\ UNCHANGED <<repliesMap, corrOf, queryOf, callerPc, timerPc, cleanEntry, closed,
                   received, attempts, consEntry, fatal>>
    /\ acks' = IF consPc \in ExplicitAckPcs THEN acks + 1 ELSE acks
    /\ UNCHANGED otherVars

(***************************************************************************)
(* The Go runtime detects an unsynchronized map access and aborts.         *)
(***************************************************************************)
MapFatal ==
    /\ fatal = "none"
    /\ MapRace
    /\ fatal' = "concurrent map access"
    /\ UNCHANGED <<repliesMap, corrOf, queryOf, callerPc, timerPc, cleanEntry, closed,
                   received, attempts, consPc, msg, consEntry>>
    /\ UNCHANGED <<acks, otherVars>>

ConsumerStep ==
    \/ ConsLookupBegin
    \/ ConsLookupEnd
    \/ ConsStop
    \/ ConsSend
    \/ ConsClose
    \/ ConsDeleteBegin
    \/ ConsDeleteEnd
    \/ ConsNext

CleanStep(r) ==
    \/ CleanLookupBegin(r)
    \/ CleanLookupEnd(r)
    \/ CleanSend(r)
    \/ CleanClose(r)
    \/ CleanDeleteBegin(r)
    \/ CleanDeleteEnd(r)

InsertStep(r) ==
    \/ InsertBegin(r)
    \/ InsertEnd(r)

Next ==
    \/ \E r \in Regs, q \in QueryTypes : StartTimer(r, q)
    \/ \E r \in Regs : InsertBegin(r)
    \/ \E r \in Regs : InsertEnd(r)
    \/ \E r \in Regs : Abandon(r)
    \/ \E r \in Regs : TimerFire(r)
    \/ \E r \in Regs : CleanLookupBegin(r)
    \/ \E r \in Regs : CleanLookupEnd(r)
    \/ \E r \in Regs : CleanSend(r)
    \/ \E r \in Regs : CleanClose(r)
    \/ \E r \in Regs : CleanDeleteBegin(r)
    \/ \E r \in Regs : CleanDeleteEnd(r)
    \/ \E m \in Messages : Take(m)
    \/ ConsLookupBegin
    \/ ConsLookupEnd
    \/ ConsStop
    \/ ConsSend
    \/ ConsClose
    \/ ConsDeleteBegin
    \/ ConsDeleteEnd
    \/ ConsNext
    \/ MapFatal

Spec == Init /\ [][Next]_vars

\* Every goroutine that can run is scheduled, and an armed timer expires.
\* Nothing forces a delivery to arrive, a query to be issued or a caller to
\* give up, and the runtime need not detect a race.
Fairness ==
    /\ WF_vars(ConsumerStep)
    /\ \A r \in Regs : WF_vars(CleanStep(r))
    /\ \A r \in Regs : WF_vars(InsertStep(r))
    /\ \A r \in Regs : WF_vars(TimerFire(r))

FairSpec == Init /\ [][Next]_vars /\ Fairness

\* addReplyToListen takes any string: registrations may share a correlation id.
ReuseInit ==
    /\ RouterInit
    /\ idPolicy = "any"
    /\ PublisherInit
    /\ MessagingInit

ReuseSpec == ReuseInit /\ [][Next]_vars

(***************************************************************************)
(* Publisher lifecycle.  Publisher.Start opens a connection and calls      *)
(* replyRouter.listen on it; Publisher.Stop closes the connection.  The    *)
(* broker deletes an exclusive queue, with its binding and consumer, when  *)
(* the connection that declared it closes.                                 *)
(***************************************************************************)
PublisherStart ==
    /\ pubState \in {"new", "stopped"}
    /\ connGen < MaxStarts
    /\ connGen' = connGen + 1
    /\ connOpen' = TRUE
    /\ pubState' = "starting"
    /\ listenPc' = "channel"
    /\ listenErr' = "nil"
    /\ UNCHANGED <<startErr, stopErr, routerCh, broker, consumerOf, msgVars, routerVars>>

\* ch, err := conn.Channel(); r.ch = ch
ListenChannel ==
    /\ listenPc = "channel"
    /\ connOpen
    /\ routerCh' = connGen
    /\ listenPc' = "declare"
    /\ UNCHANGED <<pubState, connGen, connOpen, startErr, stopErr, listenErr, broker,
                   consumerOf, msgVars, routerVars>>

\* r.ch.QueueDeclare(r.id, durable, exclusive): refused while another open
\* connection owns the queue.
ListenQueueDeclare ==
    /\ listenPc = "declare"
    /\ IF broker.owner \notin {NoConn, routerCh}
         THEN /\ listenErr' = "error"
              /\ listenPc' = "ret"
              /\ UNCHANGED broker
         ELSE /\ broker' = [broker EXCEPT !.owner = routerCh, !.name = RouterId]
              /\ listenPc' = "bind"
              /\ UNCHANGED listenErr
    /\ UNCHANGED <<pubState, connGen, connOpen, startErr, stopErr, routerCh,
                   consumerOf, msgVars, routerVars>>

\* r.ch.QueueBind(queriesQueue.Name, r.id, globalReplyExchange)
ListenQueueBind ==
    /\ listenPc = "bind"
    /\ broker' = [broker EXCEPT !.key = RouterId]
    /\ listenPc' = "qos"
    /\ UNCHANGED <<pubState, connGen, connOpen, startErr, stopErr, listenErr, routerCh,
                   consumerOf, msgVars, routerVars>>

\* r.ch.Qos(15, 0, false)
ListenQos ==
    /\ listenPc = "qos"
    /\ broker' = [broker EXCEPT !.prefetch = Prefetch]
    /\ listenPc' = "consume"
    /\ UNCHANGED <<pubState, connGen, connOpen, startErr, stopErr, listenErr, routerCh,
                   consumerOf, msgVars, routerVars>>

\* r.ch.Consume(queriesQueue.Name, r.id, auto-ack, ...)
ListenConsume ==
    /\ listenPc = "consume"
    /\ broker' = [broker EXCEPT !.consumer = RouterId]
    /\ listenPc' = "go"
    /\ UNCHANGED <<pubState, connGen, connOpen, startErr, stopErr, listenErr, routerCh,
                   consumerOf, msgVars, routerVars>>

\* listen returning nil without starting the consumer goroutine.
ListenNoGo ==
    /\ listenPc = "go"
    /\ listenErr' = "nil"
    /\ listenPc' = "ret"
    /\ UNCHANGED <<pubState, connGen, connOpen, startErr, stopErr, routerCh, broker,
                   consumerOf, msgVars, routerVars>>

\* go func() { for msg := range msgs {...} }(); return nil
ListenGo ==
    /\ listenPc = "go"
    /\ consumerOf' = consumerOf \cup {routerCh}
    /\ listenErr' = "nil"
    /\ listenPc' = "ret"
    /\ UNCHANGED <<pubState, connGen, connOpen, startErr, stopErr, routerCh, broker,
                   msgVars, routerVars>>

\* Publisher.Start returns what listen returned.
PublisherStartReturn ==
    /\ listenPc = "ret"
    /\ startErr' = listenErr
    /\ pubState' = IF listenErr = "nil" THEN "started" ELSE "failed"
    /\ listenPc' = "idle"
    /\ UNCHANGED <<connGen, connOpen, stopErr, listenErr, routerCh, broker, consumerOf,
                   msgVars, routerVars>>

\* Publisher.Stop closes the connection; the exclusive reply queue goes with it.
PublisherStop ==
    /\ pubState = "started"
    /\ connOpen' = FALSE
    /\ broker' = NoQueue
    /\ stopErr' = "nil"
    /\ pubState' = "stopped"
    /\ UNCHANGED <<connGen, startErr, listenPc, listenErr, routerCh, consumerOf,
                   msgVars, routerVars>>

\* msgs is closed with its connection: the range loop of the goroutine ends.
ConsumerExit(g) ==
    /\ g \in consumerOf
    /\ ~(connOpen /\ g = connGen)
    /\ consumerOf' = consumerOf \ {g}
    /\ UNCHANGED <<pubState, connGen, connOpen, startErr, stopErr, listenPc, listenErr,
                   routerCh, broker, msgVars, routerVars>>

(***************************************************************************)
(* Listeners, commands and events.  A Listener declares its queues in      *)
(* Listen (declarations stay at the broker) and consumes while listening.  *)
(***************************************************************************)
ListenerListen(a) ==
    /\ lstState[a] # "listening"
    /\ lstState' = [lstState EXCEPT ![a] = "listening"]
    /\ declared' = declared \cup {a}
    /\ lstErr' = [lstErr EXCEPT ![a].listen = "nil"]
    /\ UNCHANGED <<cmdQueue, evtQueue, invoked, sentLog, nextId, pubVars, routerVars>>

\* Stop that fails on a Listener that is not listening.
ListenerStopNeedsListen(a) ==
    /\ lstState' = [lstState EXCEPT ![a] = IF @ = "listening" THEN "stopped" ELSE @]
    /\ lstErr' = [lstErr EXCEPT ![a].stop = IF lstState[a] = "listening" THEN "nil" ELSE "error"]
    /\ UNCHANGED <<declared, cmdQueue, evtQueue, invoked, sentLog, nextId, pubVars, routerVars>>

\* Stop cancels the consumers of a listening Listener and does nothing otherwise.
ListenerStop(a) ==
    /\ lstState' = [lstState EXCEPT ![a] = IF @ = "listening" THEN "stopped" ELSE @]
    /\ lstErr' = [lstErr EXCEPT ![a].stop = "nil"]
    /\ UNCHANGED <<declared, cmdQueue, evtQueue, invoked, sentLog, nextId, pubVars, routerVars>>

\* Message identifier of the n-th message: fresh for every message.
NewMessageId(n) == n

\* Queues a command for target is routed to: routing key = application name.
CmdRecipients(target) == {a \in declared : a = target}

\* An event routed to one queue only.
EventRecipientsOne(type) ==
    LET all == {a \in declared : type \in EventHandlers(a)}
    IN  IF all = {} THEN {} ELSE {CHOOSE a \in all : TRUE}

\* Queues an event is routed to: every queue bound for its type.
EventRecipients(type) == {a \in declared : type \in EventHandlers(a)}

SendCmd(target, type, data) ==
    /\ pubState = "started"
    /\ nextId <= MaxSends
    /\ LET m == [kind |-> "cmd", id |-> NewMessageId(nextId), source |-> PubApp,
                 target |-> target, type |-> type, data |-> data]
       IN  /\ cmdQueue' = [a \in Apps |-> IF a \in CmdRecipients(target)
                                            THEN Append(cmdQueue[a], m) ELSE cmdQueue[a]]
           /\ sentLog' = sentLog \cup {[msg |-> m, bound |-> declared]}
    /\ nextId' = nextId + 1
    /\ UNCHANGED <<lstState, lstErr, declared, evtQueue, invoked, pubVars, routerVars>>

PublishEvent(type, data) ==
    /\ pubState = "started"
    /\ nextId <= MaxSends
    /\ LET m == [kind |-> "event", id |-> NewMessageId(nextId), source |-> PubApp,
                 target |-> NoTarget, type |-> type, data |-> data]
       IN  /\ evtQueue' = [a \in Apps |-> IF a \in EventRecipients(type)
                                            THEN Append(evtQueue[a], m) ELSE evtQueue[a]]
           /\ sentLog' = sentLog \cup {[msg |-> m, bound |-> declared]}
    /\ nextId' = nextId + 1
    /\ UNCHANGED <<lstState, lstErr, declared, cmdQueue, invoked, pubVars, routerVars>>

\* A command consumer that acknowledges without invoking the handler.
ConsumeCmdDrops(a) ==
    /\ lstState[a] = "listening"
    /\ cmdQueue[a] # << >>
    /\ cmdQueue' = [cmdQueue EXCEPT ![a] = Tail(@)]
    /\ UNCHANGED <<lstState, lstErr, declared, evtQueue, invoked, sentLog, nextId,
                   pubVars, routerVars>>

\* Dispatch of one command: invoke the handler of its type, or drop; acknowledge.
ConsumeCmd(a) ==
    /\ lstState[a] = "listening"
    /\ cmdQueue[a] # << >>
    /\ LET m == Head(cmdQueue[a])
       IN  invoked' = [invoked EXCEPT ![a] = IF m.type \in CmdHandlers(a)
                                                THEN Append(@, m) ELSE @]
    /\ cmdQueue' = [cmdQueue EXCEPT ![a] = Tail(@)]
    /\ UNCHANGED <<lstState, lstErr, declared, evtQueue, sentLog, nextId, pubVars, routerVars>>

\* Dispatch of one event.
ConsumeEvent(a) ==
    /\ lstState[a] = "listening"
    /\ evtQueue[a] # << >>
    /\ LET m == Head(evtQueue[a])
       IN  invoked' = [invoked EXCEPT ![a] = IF m.type \in EventHandlers(a)
                                                THEN Append(@, m) ELSE @]
    /\ evtQueue' = [evtQueue EXCEPT ![a] = Tail(@)]
    /\ UNCHANGED <<lstState, lstErr, declared, cmdQueue, sentLog, nextId, pubVars, routerVars>>

\* Lifecycle calls on the Publisher and the Listeners, nothing published.
LifecycleNext ==
    \/ PublisherStart
    \/ ListenChannel
    \/ ListenQueueDeclare
    \/ ListenQueueBind
    \/ ListenQos
    \/ ListenConsume
    \/ ListenGo
    \/ PublisherStartReturn
    \/ PublisherStop
    \/ \E g \in 1..MaxStarts : ConsumerExit(g)
    \/ \E a \in Apps : ListenerListen(a)
    \/ \E a \in Apps : ListenerStop(a)

LifecycleSpec == Init /\ [][LifecycleNext]_vars

\* A Publisher after its first Start.
PublisherStarted ==
    /\ pubState = "started"
    /\ connGen = 1
    /\ connOpen = TRUE
    /\ startErr = "nil"
    /\ stopErr = "none"
    /\ listenPc = "idle"
    /\ listenErr = "nil"
    /\ routerCh = 1
    /\ broker = [owner |-> 1, name |-> RouterId, key |-> RouterId,
                 prefetch |-> Prefetch, consumer |-> RouterId]
    /\ consumerOf = {1}

StartedInit ==
    /\ RouterInit
    /\ idPolicy = "fresh"
    /\ PublisherStarted
    /\ MessagingInit

\* A started Publisher sending commands and events to Listeners that come and go.
MessagingNext ==
    \/ \E a \in Apps : ListenerListen(a)
    \/ \E a \in Apps : ListenerStop(a)
    \/ \E a \in Apps, t \in CmdTypes, d \in Data : SendCmd(a, t, d)
    \/ \E t \in EventTypes, d \in Data : PublishEvent(t, d)
    \/ \E a \in Apps : ConsumeCmd(a)
    \/ \E a \in Apps : ConsumeEvent(a)

MessagingSpec == StartedInit /\ [][MessagingNext]_vars

(***************************************************************************)
(* Properties.                                                             *)
(***************************************************************************)
\* The contexts standing at, or blocked in, a send on the channel of registration e.
SendersAt(e) == (IF consPc = "send" /\ consEntry = e THEN {0} ELSE {})
                    \cup {MaxRegs + r : r \in {x \in Regs : timerPc[x] = "send" /\ cleanEntry[x] = e}}

Pending(r) == corrOf[r] # EmptyId /\ repliesMap[corrOf[r]] = r

\* C2: with unique correlation ids, in every interleaving of the consumer and
\* the timer callbacks at most one context ever reaches a send on an entry's
\* channel and at most one value is received from it, no channel is closed
\* twice and none is sent on after its close; the consumer does not send
\* once the timer has expired, and cleanReply does not send once the
\* consumer has stopped the timer.
C2_OneSendOneClose ==
    /\ fatal \notin {"send on closed channel", "close of closed channel"}
    /\ \A r \in Regs :
         /\ Cardinality(attempts[r]) <= 1
         /\ Len(received[r]) <= 1
         /\ closed[r] => SendersAt(r) = {}
         /\ TimerFired(r) => 0 \notin attempts[r]
         /\ timerPc[r] = "stopped" => attempts[r] = {0}

\* The reply reached the router when the deadline had already expired: the
\* consumer dropped it and cleanReply is the one sender.
C2_Witness ==
    /\ consPc = "ackFired"
    /\ \E r \in Regs :
         /\ msg.cid = corrOf[r]
         /\ attempts[r] = {MaxRegs + r}
         /\ Len(received[r]) = 1
         /\ closed[r]

\* C3: no two contexts are inside an access of the pending-reply table at the
\* same time with one of them writing, and no other context writes the table
\* between the consumer's lookup and its delete.
C3_TableAccessExclusive ==
    /\ ~MapRace
    /\ consPc \in {"stop", "send", "close", "delete", "deleting"} => Writers \subseteq {0}

CarriedId(m) == IF m.cid # EmptyId THEN m.cid
                ELSE IF m.hdr # NoHeader THEN m.hdr ELSE EmptyId

\* The registration's wait has an outcome: exactly one value received.
Resolved(r) == Len(received[r]) = 1

\* The consumer is handling a delivery that carries correlation id c.
Consuming(c) == consPc # "recv" /\ CarriedId(msg) = c

\* C1: a caller that stays blocked receiving on the channel returned by
\* addReplyToListen eventually receives exactly one value, in every
\* interleaving of the caller, the timer callback and the consumer (a caller
\* that gives up, and a run the runtime aborts, are left out).
C1_CallerEventuallyReceives ==
    \A r \in Regs :
        (callerPc[r] = "waiting") ~>
            (Resolved(r) \/ callerPc[r] = "abandoned" \/ fatal # "none")

\* C5: if no reply carrying the correlation id of a wait is ever consumed, the
\* waiting caller receives a TimeoutReplyError and no reply data, and a
\* TimeoutReplyError is received only after the entry's timer has expired.
C5_TimeoutWhenNoReply ==
    /\ \A r \in Regs :
         [](\A i \in DOMAIN received[r] :
                received[r][i].err = "TimeoutReplyError" => TimerFired(r))
    /\ \A r \in Regs :
         [](~Consuming(NewCorrelationId(r))) =>
             ((callerPc[r] = "waiting") ~>
                 \/ received[r] = << TimeoutReply(r) >>
                 \/ callerPc[r] = "abandoned"
                 \/ fatal # "none")

\* C6: every entry inserted into repliesMap is eventually deleted from it (left
\* out: the entry of a caller that gave up, and a run the runtime aborts).
C6_EntryEventuallyDeleted ==
    \A r \in Regs :
        Pending(r) ~> (~Pending(r) \/ callerPc[r] = "abandoned" \/ fatal # "none")

\* C7: the entry of a caller that abandoned its wait while its deadline timer
\* was still armed is eventually removed from the table (the router has no
\* operation a caller could clean up with: the timer is the one remover).
C7_AbandonedEntryRemoved ==
    \A r \in Regs :
        (callerPc[r] = "abandoned" /\ Pending(r) /\ timerPc[r] = "armed")
            ~> (~Pending(r) \/ fatal # "none")

\* C8: after taking a delivery the consumer eventually returns to take the
\* next one, and every cleanReply a timer started eventually returns.
C8_NoTaskBlocksForever ==
    /\ (consPc # "recv") ~> (consPc = "recv" \/ fatal # "none")
    /\ \A r \in Regs : TimerFired(r) ~> (timerPc[r] = "ret" \/ fatal # "none")

\* C9: a reply whose CorrelationId field is empty and whose header carries the
\* correlation id of a pending entry with an armed timer is not dropped for
\* want of an entry: the consumer finds the entry, as it does for a reply that
\* carries the id in the dedicated field.
C9_HeaderReplyFindsEntry ==
    [][(/\ consPc = "reading"
        /\ consPc' # "reading"
        /\ repliesMap[CarriedId(msg)] # NoEntry
        /\ timerPc[repliesMap[CarriedId(msg)]] = "armed")
       => (consPc' = "stop" /\ consEntry' = repliesMap[CarriedId(msg)])]_vars

\* What a dropped delivery must leave alone: the table, every timer, every
\* channel, every caller.
DropFrame == UNCHANGED <<repliesMap, timerPc, cleanEntry, closed, received, attempts,
                         callerPc, corrOf, queryOf, fatal>>

\* C10: a delivery that carries no correlation id at all, or whose correlation
\* id has no entry in the table, is dropped: taking it, looking it up and
\* finishing with it change neither the table nor a timer, a channel or a
\* caller, and the consumer's next step after the drop is to take the next
\* delivery.
C10_DropChangesNothing ==
    [][/\ (consPc = "recv" /\ consPc' # "recv" /\ CarriedId(msg') = EmptyId)
            => (consPc' = "ackNoCorr" /\ DropFrame)
       /\ (consPc = "reading" /\ consPc' # "reading" /\ repliesMap[CarriedId(msg)] = NoEntry)
            => (consPc' = "miss" /\ DropFrame)
       /\ (consPc \in {"ackNoCorr", "miss"} /\ consPc' # consPc)
            => (consPc' = "recv" /\ DropFrame)]_vars

\* A duplicate of an already delivered reply was dropped while another query
\* is pending with its timer armed.
C10_Witness ==
    /\ consPc = "miss"
    /\ \E r \in Regs : Pending(r) /\ timerPc[r] = "armed" /\ callerPc[r] = "waiting"
    /\ \E r \in Regs : CarriedId(msg) = corrOf[r] /\ callerPc[r] = "done"

\* C15: every delivery the consumer has finished with was acknowledged to the
\* broker exactly once, on every path of the loop.
C15_AckedExactlyOnce ==
    [][(consPc \in ExplicitAckPcs \cup {"miss"} /\ consPc' = "recv") => acks' = 1]_vars

\* C16: every entry in repliesMap can still be resolved: its timer is armed,
\* or was stopped by the consumer that is now delivering to it, or has expired
\* with its cleanReply not yet returned.
C16_EntryResolvable ==
    \A c \in CorrIds :
        LET e == repliesMap[c] IN
        e # NoEntry =>
            \/ timerPc[e] = "armed"
            \/ /\ timerPc[e] = "stopped"
               /\ consEntry = e
               /\ consPc \in {"send", "close", "delete", "deleting"}
            \/ TimerFired(e) /\ timerPc[e] # "ret"

\* C17: the cleanReply started by the timer of one registration sends on and
\* closes only the channel of that registration, also when registrations share
\* a correlation id, and a caller that waits with its timer armed still has
\* its own entry in the table (it was neither overwritten nor deleted by
\* another registration).
C17_TimerExpiresOwnEntry ==
    \A r \in Regs :
        /\ cleanEntry[r] \in {NoEntry, r}
        /\ (callerPc[r] = "waiting" /\ timerPc[r] = "armed") => Pending(r)

\* Registration r is pending and untouched: its entry is in the table, its
\* channel is open with nothing sent, its timer is armed.
Untouched(r) ==
    /\ Pending(r)
    /\ timerPc[r] = "armed"
    /\ ~closed[r]
    /\ received[r] = << >>
    /\ attempts[r] = {}

\* C18: a step that is not the expiry of r's own timer and not the consumer
\* stopping r's timer for a reply carrying r's id (so: the resolution of another
\* query by reply or by timeout, or a new registration) leaves an untouched
\* pending entry r untouched, with its query type.
C18_OtherEntriesUnchanged ==
    [][\A r \in Regs :
          (/\ Untouched(r)
           /\ ~(consPc = "stop" /\ consEntry = r /\ consPc' # "stop")
           /\ timerPc'[r] # "lookup")
          => (Untouched(r)' /\ queryOf'[r] = queryOf[r] /\ corrOf'[r] = corrOf[r])]_vars

\* One query was resolved by its timeout and its entry deleted while another
\* one is still pending and untouched.
C18_Witness ==
    \E r1, r2 \in Regs :
        /\ r1 # r2
        /\ timerPc[r1] = "ret"
        /\ received[r1] = << TimeoutReply(r1) >>
        /\ repliesMap[corrOf[r1]] = NoEntry
        /\ Untouched(r2)

\* C11: however Publisher.Start and Publisher.Stop alternate, no Start and no Stop
\* returns an error, and a started Publisher has, on its current connection, the
\* router's channel, the reply queue named and bound under the router identity
\* with its prefetch and consumer, and a running consumer goroutine.
C11_StartRecreatesRouter ==
    /\ startErr \in {"none", "nil"}
    /\ stopErr \in {"none", "nil"}
    /\ pubState = "started" =>
          /\ connOpen
          /\ routerCh = connGen
          /\ broker = [owner |-> connGen, name |-> RouterId, key |-> RouterId,
                       prefetch |-> Prefetch, consumer |-> RouterId]
          /\ connGen \in consumerOf

\* Started for the third time (start, stop, start, stop, start).
C11_Witness == pubState = "started" /\ connGen >= 3 /\ stopErr = "nil" /\ startErr = "nil"

\* C12: no Listen and no Stop of a Listener returns an error; a Stop of a Listener
\* that is not listening changes nothing of it; a Listen leaves it listening with
\* its queues declared.
C12_StopIdempotentListenAfterStop ==
    [][\A a \in Apps :
          /\ lstErr'[a].stop \in {"none", "nil"}
          /\ lstErr'[a].listen \in {"none", "nil"}
          /\ (lstState[a] # "listening" /\ lstState'[a] # "listening")
                => lstState'[a] = lstState[a]
          /\ (lstState[a] # "listening" /\ lstState'[a] = "listening")
                => (lstErr'[a].listen = "nil" /\ a \in declared')]_vars

\* A Listener listening again after a Stop.
C12_Witness ==
    \E a \in Apps : lstState[a] = "listening" /\ lstErr[a].stop = "nil" /\ lstErr[a].listen = "nil"

\* How many times m occurs in q.
Copies(q, m) == Cardinality({i \in 1..Len(q) : q[i] = m})

\* C13: a command sent to application A with type T while A's queue is declared
\* and A has a handler for T is, at every moment, either waiting in A's queue or
\* was passed to A's handler, exactly once in all; no other application's handler
\* gets it; it carries Source = the publisher's application, Target = A, Type = T
\* and the data sent, and no two commands sent share an Id.
C13_OneInvocationPerCmd ==
    /\ \A s \in sentLog :
          s.msg.kind = "cmd" =>
              /\ s.msg.source = PubApp
              /\ \A a \in Apps \ {s.msg.target} : Copies(invoked[a], s.msg) = 0
              /\ (s.msg.target \in s.bound /\ s.msg.type \in CmdHandlers(s.msg.target))
                    => Copies(cmdQueue[s.msg.target], s.msg)
                         + Copies(invoked[s.msg.target], s.msg) = 1
    /\ \A s, t \in sentLog : s.msg.id = t.msg.id => s = t
    /\ \A a \in Apps : \A i \in 1..Len(invoked[a]) :
          invoked[a][i].kind = "cmd" =>
              /\ invoked[a][i].target = a
              /\ invoked[a][i].type \in CmdHandlers(a)
              /\ \E s \in sentLog : s.msg = invoked[a][i]

\* Two commands sent to one application, its handler invoked once with each.
C13_Witness ==
    \E a \in Apps :
        /\ cmdQueue[a] = << >>
        /\ Len(invoked[a]) = 2
        /\ invoked[a][1].kind = "cmd" /\ invoked[a][2].kind = "cmd"
        /\ invoked[a][1].id # invoked[a][2].id
        /\ invoked[a][1].type = "testingListenerApp.cmd" /\ invoked[a][2].type = "testingListenerApp.cmd"

\* C14: an event of type T is, at every moment, either waiting in the queue or
\* was passed to the handler, exactly once in all, of every application whose
\* queue was bound when it was published and that has a handler for T, and of no
\* other application; every copy is the published event (same Id, Source, Type, Data).
C14_EventFanOut ==
    \A s \in sentLog :
        s.msg.kind = "event" =>
            \A a \in Apps :
                Copies(evtQueue[a], s.msg) + Copies(invoked[a], s.msg)
                    = IF a \in s.bound /\ s.msg.type \in EventHandlers(a) THEN 1 ELSE 0

\* One event, the handler of every application invoked once with it.
C14_Witness ==
    \E s \in sentLog :
        /\ s.msg.kind = "event"
        /\ s.bound = Apps
        /\ \A a \in Apps : Copies(invoked[a], s.msg) = 1 /\ evtQueue[a] = << >>

====
